---------------------------- MODULE Spec2Model ----------------------------
(***************************************************************************)
(* A model of the VNC capture path of scrying (src/vnc/mod.rs) and of the  *)
(* mode filter (src/argparse.rs).                                          *)
(*                                                                         *)
(*   - pixel_to_rgb and put_pixels, the pixel/frame decoder;               *)
(*   - vnc_poll, vnc_capture and capture, one capture session;             *)
(*   - the worker dispatcher that runs sessions under a thread budget;     *)
(*   - Mode::selected.                                                     *)
(***************************************************************************)
EXTENDS Integers, Sequences, FiniteSets, TLC

VARIABLES
    build,          \* "debug" | "release": whether integer overflow panics
    \* ---- a direct call of Image::pixel_to_rgb
    px_format,      \* the PixelFormat argument
    px_bytes,       \* the byte slice argument
    px_result,      \* the returned value, or NoResult before the call
    \* ---- direct calls of Mode::selected
    mode_calls,     \* the calls made so far: <<[self, filter, result], ...>>
    \* ---- direct calls of Image::put_pixels on one Image
    img,            \* the Image: [format, width, height, raster]
    img_call,       \* the last call: [rect, pixels, before, tag], or NoCall
    img_ncalls,     \* the number of calls made
    \* ---- a run of the VNC worker pool
    net,            \* what the servers of this run declare and send
    threads,        \* opts.threads, the budget of the pool
    target_kind,    \* per target: "Address" | "Url"
    queue,          \* dispatcher: the targets not yet started, in order
    num_workers,    \* dispatcher: the active count
    status_chan,    \* ThreadStatus::Complete messages sent and not yet received
    completions,    \* dispatcher: the completion signals received
    session,        \* per target: the capture session (see NoSession)
    files,          \* per target: the raster saved as vnc/<target>.png, or NoFile
    report_chan,    \* the ReportMessages sent to the reporter, in order
    reporter_alive, \* whether the reporter's Receiver still exists
    \* ---- a direct call of the authentication closure of vnc_capture
    auth_methods,   \* the methods the server offers, in order
    auth_choice     \* what the closure returned, or NoAuthResult before the call

pixelVars == <<px_format, px_bytes, px_result>>
modeVars  == <<mode_calls>>
imageVars == <<img, img_call, img_ncalls>>
poolVars  == <<net, threads, target_kind, queue, num_workers, status_chan, completions,
               session, files, report_chan, reporter_alive>>
authVars  == <<auth_methods, auth_choice>>
vars      == <<build, pixelVars, modeVars, imageVars, poolVars, authVars>>

(***************************************************************************)
(* Machine integers.                                                       *)
(***************************************************************************)
U8Bits  == 8
U16Bits == 16
U32Bits == 32

RECURSIVE Pow2(_)
Pow2(n) == IF n = 0 THEN 1 ELSE 2 * Pow2(n - 1)

\* x << n on an unsigned value of the given width: the high bits fall off
Shl(x, n, width) == (x * Pow2(n)) % Pow2(width)

RECURSIVE BitAnd(_, _)
BitAnd(a, b) ==
    IF a = 0 \/ b = 0 THEN 0
    ELSE 2 * BitAnd(a \div 2, b \div 2) + (IF a % 2 = 1 /\ b % 2 = 1 THEN 1 ELSE 0)

\* u16::count_ones / u32::count_ones
RECURSIVE count_ones(_)
count_ones(x) == IF x = 0 THEN 0 ELSE (x % 2) + count_ones(x \div 2)

\* A u16 or u32 sample is held as its bytes, least significant first (a u32
\* does not fit the model checker's integers).
\* u16::from_le_bytes / u32::from_le_bytes
from_le_bytes(bytes) == bytes

\* A big-endian read that leaves the bytes in little-endian order
from_be_bytes_unswapped(bytes) == bytes

\* u16::from_be_bytes / u32::from_be_bytes
from_be_bytes(bytes) == [i \in 1..Len(bytes) |-> bytes[Len(bytes) + 1 - i]]

\* Bit i of a sample, 0 beyond its width
BitOf(px, i) ==
    IF i >= 8 * Len(px) THEN 0
    ELSE (px[(i \div 8) + 1] \div Pow2(i % 8)) % 2

\* The n bits of a sample from bit `from` upwards, as a number
RECURSIVE BitsFrom(_, _, _)
BitsFrom(px, from, n) ==
    IF n = 0 THEN 0
    ELSE BitOf(px, from) + 2 * BitsFrom(px, from + 1, n - 1)

(***************************************************************************)
(* Results.  A call returns Ok(value), returns Err, or panics (the thread  *)
(* unwinds).                                                               *)
(***************************************************************************)
NoRgb    == <<0, 0, 0>>
Ok(rgb)  == [tag |-> "Ok", rgb |-> rgb]
Err      == [tag |-> "Err", rgb |-> NoRgb]
Panic    == [tag |-> "Panic", rgb |-> NoRgb]
NoResult == [tag |-> "None", rgb |-> NoRgb]

Builds == {"debug", "release"}

(***************************************************************************)
(* vnc::PixelFormat, as the server declares it.                            *)
(***************************************************************************)
PixelFormat(bpp, depth, be, rmax, gmax, bmax, rshift, gshift, bshift) ==
    [bits_per_pixel |-> bpp, depth |-> depth, big_endian |-> be,
     red_max |-> rmax, green_max |-> gmax, blue_max |-> bmax,
     red_shift |-> rshift, green_shift |-> gshift, blue_shift |-> bshift]

\* The formats the source documents (Xvfb at 24, 16, 15 and 8 bit)
Rgb565   == PixelFormat(16, 16, FALSE, 31, 63, 31, 11, 5, 0)
Rgb888   == PixelFormat(32, 24, FALSE, 255, 255, 255, 16, 8, 0)
Rgb555   == PixelFormat(16, 15, FALSE, 31, 31, 31, 10, 5, 0)
Mapped8  == PixelFormat(8, 8, FALSE, 0, 0, 0, 0, 0, 0)

BigEndian(f) == [f EXCEPT !.big_endian = TRUE]

\* Formats with a supported (bits-per-pixel, depth) pair whose channel maxima
\* are 2^n - 1 with n <= 8 and whose channels lie inside the sample
WellFormedFormats ==
    {Rgb565, Rgb888, Rgb555,
     BigEndian(Rgb565), BigEndian(Rgb888), BigEndian(Rgb555),
     PixelFormat(16, 16, FALSE, 31, 63, 31, 0, 5, 11),
     PixelFormat(32, 24, TRUE, 255, 255, 255, 0, 8, 16)}

\* Formats with a (bits-per-pixel, depth) pair outside the supported set
UnsupportedFormats ==
    {Mapped8,
     PixelFormat(16, 8, FALSE, 7, 7, 3, 5, 2, 0),
     PixelFormat(32, 32, FALSE, 255, 255, 255, 16, 8, 0),
     PixelFormat(32, 30, FALSE, 1023, 1023, 1023, 20, 10, 0),
     PixelFormat(24, 24, FALSE, 255, 255, 255, 16, 8, 0)}

\* Formats with a supported pair and channel maxima or shifts a server may
\* declare that are not those of a packed true-colour layout
OddFormats ==
    {PixelFormat(16, 16, FALSE, 511, 63, 31, 7, 5, 0),
     PixelFormat(16, 16, FALSE, 5, 63, 31, 11, 5, 0),
     PixelFormat(16, 16, FALSE, 31, 63, 31, 16, 5, 0),
     PixelFormat(32, 24, FALSE, 1023, 255, 255, 16, 8, 0),
     PixelFormat(32, 24, FALSE, 255, 255, 255, 32, 8, 0)}

Formats == WellFormedFormats \cup UnsupportedFormats \cup OddFormats

(***************************************************************************)
(* Image::pixel_to_rgb                                                     *)
(***************************************************************************)
\* px >> shift : the shift amount must be below the width; the debug build
\* panics otherwise, the release build masks the amount
ShiftOverflows(shift, width) == shift >= width

\* 8 - mask.count_ones() as u32, then value << that amount on a u16
PromoteOverflows(mask) == count_ones(mask) > 8

\* A promotion that always shifts by 3, right for a 5-bit channel only
PromoteByThree(value, mask) == Shl(value, 3, U16Bits)

Promote(value, mask) ==
    LET n == (8 - count_ones(mask)) % U16Bits
    IN  Shl(value, n, U16Bits)

\* (px >> shift) & mask, the mask being a u16 widened to the sample's type
Channel(px, shift, mask, width) ==
    BitAnd(BitsFrom(px, shift % width, U16Bits), mask)

\* r.try_into()? : u16 / u32 -> u8
FitsU8(v) == v < Pow2(U8Bits)

pixel_to_rgb16(bld, format, bytes) ==
    IF Len(bytes) # 2 THEN Err
    ELSE
    LET px == IF format.big_endian THEN from_be_bytes(bytes)
              ELSE from_le_bytes(bytes)
        b0 == Channel(px, format.blue_shift, format.blue_max, U16Bits)
        g0 == Channel(px, format.green_shift, format.green_max, U16Bits)
        r0 == Channel(px, format.red_shift, format.red_max, U16Bits)
        b  == Promote(b0, format.blue_max)
        g  == Promote(g0, format.green_max)
        r  == Promote(r0, format.red_max)
        overflow ==
            \/ ShiftOverflows(format.blue_shift, U16Bits)
            \/ ShiftOverflows(format.green_shift, U16Bits)
            \/ ShiftOverflows(format.red_shift, U16Bits)
            \/ PromoteOverflows(format.blue_max)
            \/ PromoteOverflows(format.green_max)
            \/ PromoteOverflows(format.red_max)
    IN  IF bld = "debug" /\ overflow THEN Panic
        ELSE IF FitsU8(r) /\ FitsU8(g) /\ FitsU8(b) THEN Ok(<<r, g, b>>)
        ELSE Err

pixel_to_rgb32(bld, format, bytes) ==
    IF Len(bytes) # 4 THEN Err
    ELSE
    LET px == IF format.big_endian THEN from_be_bytes(bytes)
              ELSE from_le_bytes(bytes)
        b == Channel(px, format.blue_shift, format.blue_max, U32Bits)
        g == Channel(px, format.green_shift, format.green_max, U32Bits)
        r == Channel(px, format.red_shift, format.red_max, U32Bits)
        overflow ==
            \/ ShiftOverflows(format.blue_shift, U32Bits)
            \/ ShiftOverflows(format.green_shift, U32Bits)
            \/ ShiftOverflows(format.red_shift, U32Bits)
    IN  IF bld = "debug" /\ overflow THEN Panic
        ELSE IF FitsU8(r) /\ FitsU8(g) /\ FitsU8(b) THEN Ok(<<r, g, b>>)
        ELSE Err

\* Any other (bits-per-pixel, depth) pair reaches the panic! arm
pixel_to_rgb(bld, format, bytes) ==
    LET d == <<format.bits_per_pixel, format.depth>>
    IN  IF d = <<16, 16>> \/ d = <<16, 15>> THEN pixel_to_rgb16(bld, format, bytes)
        ELSE IF d = <<32, 24>> THEN pixel_to_rgb32(bld, format, bytes)
        ELSE Panic

(***************************************************************************)
(* Image::new and Image::put_pixels                                        *)
(***************************************************************************)
Coords(width, height) == (0..(width - 1)) \X (0..(height - 1))

\* ImageBuffer::new: every pixel zero
Image_new(format, width, height) ==
    [format |-> format, width |-> width, height |-> height,
     raster |-> [c \in Coords(width, height) |-> <<0, 0, 0>>]]

Rect(left, top, width, height) ==
    [left |-> left, top |-> top, width |-> width, height |-> height]

\* a + b on u16: the debug build panics on overflow, the release build wraps
U16AddOverflows(a, b) == a + b >= Pow2(U16Bits)
U16Add(a, b) == (a + b) % Pow2(U16Bits)

\* The loop state: how the call stands, the raster so far, the buffer index
LoopState(tag, raster, idx) == [tag |-> tag, raster |-> raster, idx |-> idx]

\* An index that is never advanced: every pixel decodes the first sample
AdvanceIdxStuck(idx, bytes_per_pixel) == idx

\* idx += bytes_per_pixel
AdvanceIdx(idx, bytes_per_pixel) == idx + bytes_per_pixel

\* for x in rect.left..(rect.left + rect.width) { ... idx += bytes_per_pixel }
\* cx holds what the loop body reads: build, image, pixels, bytes_per_pixel
RECURSIVE put_pixels_row(_, _, _, _, _)
put_pixels_row(cx, y, x, xend, st) ==
    IF x >= xend THEN st
    ELSE IF st.idx + cx.bytes_per_pixel > Len(cx.pixels)
    THEN [st EXCEPT !.tag = "Panic"]        \* the slice is out of range
    ELSE
    LET px == pixel_to_rgb(cx.build, cx.image.format,
                  SubSeq(cx.pixels, st.idx + 1, st.idx + cx.bytes_per_pixel))
    IN  IF px.tag # "Ok" THEN [st EXCEPT !.tag = px.tag]
        ELSE IF x >= cx.image.width \/ y >= cx.image.height
        THEN [st EXCEPT !.tag = "Panic"]    \* ImageBuffer::put_pixel
        ELSE put_pixels_row(cx, y, x + 1, xend,
                 LoopState("Ok", [st.raster EXCEPT ![<<x, y>>] = px.rgb],
                           AdvanceIdx(st.idx, cx.bytes_per_pixel)))

\* for y in rect.top..(rect.top + rect.height) { for x in ... }
RECURSIVE put_pixels_rows(_, _, _, _, _)
put_pixels_rows(cx, rect, y, yend, st) ==
    IF y >= yend THEN st
    ELSE IF cx.build = "debug" /\ U16AddOverflows(rect.left, rect.width)
    THEN [st EXCEPT !.tag = "Panic"]
    ELSE
    LET row == put_pixels_row(cx, y, rect.left,
                   U16Add(rect.left, rect.width), st)
    IN  IF row.tag # "Ok" THEN row
        ELSE put_pixels_rows(cx, rect, y + 1, yend, row)

\* A put_pixels that writes a pixel only where the raster is still blank
put_pixels_blank_only(bld, image, rect, pixels) ==
    LET bpp == image.format.bits_per_pixel
        st0 == LoopState("Ok", image.raster, 0)
    IN  IF bpp # 16 /\ bpp # 32
        THEN [tag |-> "Err", raster |-> image.raster]
        ELSE IF bld = "debug" /\ U16AddOverflows(rect.top, rect.height)
        THEN [tag |-> "Panic", raster |-> image.raster]
        ELSE
        LET cx == [build |-> bld, image |-> image, pixels |-> pixels,
                   bytes_per_pixel |-> IF bpp = 16 THEN 2 ELSE 4]
            st == put_pixels_rows(cx, rect, rect.top,
                      U16Add(rect.top, rect.height), st0)
        IN  [tag |-> st.tag,
             raster |-> [c \in DOMAIN image.raster |->
                            IF image.raster[c] # <<0, 0, 0>> THEN image.raster[c]
                            ELSE st.raster[c]]]

\* The result: [tag, raster], the raster as the call leaves it
put_pixels(bld, image, rect, pixels) ==
    LET bpp == image.format.bits_per_pixel
        st0 == LoopState("Ok", image.raster, 0)
    IN  IF bpp # 16 /\ bpp # 32
        THEN [tag |-> "Err", raster |-> image.raster]
        ELSE IF bld = "debug" /\ U16AddOverflows(rect.top, rect.height)
        THEN [tag |-> "Panic", raster |-> image.raster]
        ELSE
        LET cx == [build |-> bld, image |-> image, pixels |-> pixels,
                   bytes_per_pixel |-> IF bpp = 16 THEN 2 ELSE 4]
            st == put_pixels_rows(cx, rect, rect.top,
                      U16Add(rect.top, rect.height), st0)
        IN  [tag |-> st.tag, raster |-> st.raster]

(***************************************************************************)
(* Mode::selected                                                          *)
(***************************************************************************)
Modes == {"Auto", "Web", "Rdp", "Vnc"}

\* A filter that forgets that an Auto argument matches every mode
selectedNoAutoFilter(self, filter) == self = "Auto" \/ self = filter

selected(self, filter) == self = "Auto" \/ self = filter \/ filter = "Auto"

(***************************************************************************)
(* The authentication closure vnc_capture hands to Client::from_tcp_stream *)
(***************************************************************************)
\* vnc::client::AuthMethod
AuthMethods == {"None", "Password", "Unused"}

\* What the closure returns, and whether it logged its warning
AuthResult(choice, warned) == [choice |-> choice, warned |-> warned]

\* Some(AuthChoice::None) and None
SomeAuthChoiceNone == AuthResult("AuthChoice::None", FALSE)
NoAuthChoice       == AuthResult("NoChoice", TRUE)
NoAuthResult       == AuthResult("NotCalled", FALSE)

\* A closure that looks at the first offered method only
choose_auth_first_only(methods) ==
    IF methods # <<>> /\ Head(methods) = "None" THEN SomeAuthChoiceNone
    ELSE NoAuthChoice

\* for method in methods { match method { AuthMethod::None => return Some(..),
\* _ => {} } }  warn!(..); None
RECURSIVE choose_auth(_)
choose_auth(methods) ==
    IF methods = <<>> THEN NoAuthChoice
    ELSE IF Head(methods) = "None" THEN SomeAuthChoiceNone
    ELSE choose_auth(Tail(methods))

AuthIdle ==
    /\ auth_methods = <<>>
    /\ auth_choice = NoAuthResult

(***************************************************************************)
(* Direct calls of pixel_to_rgb: the arguments are drawn in the initial    *)
(* state, DecodePixel makes the call.                                      *)
(***************************************************************************)
ByteVals == {0, 255, 31, 224}

MaxSampleLen == 4

RECURSIVE ByteSeqs(_)
ByteSeqs(n) ==
    IF n = 0 THEN {<<>>}
    ELSE {<<b>> \o s : b \in ByteVals, s \in ByteSeqs(n - 1)}

Samples == UNION {ByteSeqs(n) : n \in 1..MaxSampleLen}

PixelIdle ==
    /\ px_format = Mapped8
    /\ px_bytes = <<>>
    /\ px_result = NoResult

ModeIdle == mode_calls = <<>>

NoImage == [format |-> Mapped8, width |-> 0, height |-> 0, raster |-> <<>>]
NoCall  == [rect |-> Rect(0, 0, 0, 0), pixels |-> <<>>, before |-> <<>>,
            tag |-> "None"]

ImageIdle ==
    /\ img = NoImage
    /\ img_call = NoCall
    /\ img_ncalls = 0

NumTargets == 3

Targets == 1..NumTargets

NoFile == <<>>

\* A capture session:
\*   state   "Queued" before the dispatcher starts it, then the spec's
\*           Connecting, Negotiating, AwaitingFrame, Finalizing, Saved, Failed;
\*           "Panicked" when the thread unwound
\*   cause   why vnc_capture returned Err
\*   image   vnc_image, from Image::new until save() consumes it
\*   events  the events vnc_poll has taken from the connection, in order,
\*           kept until the frame is saved
\*   sent    how many ThreadStatus::Complete capture() has sent
\*   exited  capture() has returned
NoSession ==
    [state |-> "Queued", cause |-> "None", image |-> NoImage, events |-> <<>>,
     sent |-> 0, exited |-> FALSE]

\* What the servers of a run declare (pixel formats, screen size) and send
\* (rectangles, pixel runs, at most max_events events before the frame ends)
NoNet == [formats |-> {}, width |-> 0, height |-> 0, rects |-> {}, runs |-> {},
          events |-> {}, max_events |-> 0]

PoolIdle ==
    /\ net = NoNet
    /\ threads = 0
    /\ target_kind = [t \in Targets |-> "Address"]
    /\ queue = <<>>
    /\ num_workers = 0
    /\ status_chan = 0
    /\ completions = 0
    /\ session = [t \in Targets |-> NoSession]
    /\ files = [t \in Targets |-> NoFile]
    /\ report_chan = <<>>
    /\ reporter_alive = TRUE

InitPixel ==
    /\ build \in Builds
    /\ px_format \in Formats
    /\ px_bytes \in Samples
    /\ px_result = NoResult
    /\ ModeIdle
    /\ ImageIdle
    /\ PoolIdle
    /\ AuthIdle

DecodePixel ==
    /\ px_result = NoResult
    /\ px_result' = pixel_to_rgb(build, px_format, px_bytes)
    /\ UNCHANGED <<build, px_format, px_bytes, modeVars, imageVars, poolVars, authVars>>

NextPixel == DecodePixel

SpecPixel == InitPixel /\ [][NextPixel]_vars

(***************************************************************************)
(* Direct calls of Mode::selected.                                         *)
(***************************************************************************)
MaxModeCalls == 2

InitMode ==
    /\ build \in Builds
    /\ PixelIdle
    /\ ImageIdle
    /\ PoolIdle
    /\ AuthIdle
    /\ mode_calls = <<>>

Select(self, filter) ==
    /\ Len(mode_calls) < MaxModeCalls
    /\ mode_calls' = Append(mode_calls,
           [self |-> self, filter |-> filter, result |-> selected(self, filter)])
    /\ UNCHANGED <<build, pixelVars, imageVars, poolVars, authVars>>

NextMode == \E self \in Modes, filter \in Modes : Select(self, filter)

SpecMode == InitMode /\ [][NextMode]_vars

(***************************************************************************)
(* Direct calls of the authentication closure: the offered list is drawn   *)
(* in the initial state, ChooseAuth makes the call.                        *)
(***************************************************************************)
MaxMethods == 4

RECURSIVE MethodLists(_)
MethodLists(n) ==
    IF n = 0 THEN {<<>>}
    ELSE MethodLists(n - 1)
         \cup {<<a>> \o s : a \in AuthMethods,
                             s \in {l \in MethodLists(n - 1) : Len(l) = n - 1}}

InitAuth ==
    /\ build \in Builds
    /\ PixelIdle
    /\ ModeIdle
    /\ ImageIdle
    /\ PoolIdle
    /\ auth_methods \in MethodLists(MaxMethods)
    /\ auth_choice = NoAuthResult

ChooseAuth ==
    /\ auth_choice = NoAuthResult
    /\ auth_choice' = choose_auth(auth_methods)
    /\ UNCHANGED <<build, pixelVars, modeVars, imageVars, poolVars, auth_methods>>

NextAuth == ChooseAuth

SpecAuth == InitAuth /\ [][NextAuth]_vars

(***************************************************************************)
(* Direct calls of put_pixels on one Image, as vnc_poll makes them: the    *)
(* rectangle and the buffer are the server's.                              *)
(***************************************************************************)
ScreenWidth  == 2
ScreenHeight == 2
MaxCalls     == 2

\* Three encoded pixels per sample size
SamplePixels(nbytes) ==
    IF nbytes = 2 THEN << <<255, 255>>, <<31, 0>>, <<224, 7>> >>
    ELSE IF nbytes = 4
    THEN << <<255, 255, 255, 255>>, <<31, 0, 224, 0>>, <<0, 255, 0, 31>> >>
    ELSE IF nbytes = 3 THEN << <<255, 255, 255>>, <<31, 0, 224>>, <<0, 255, 0>> >>
    ELSE << <<255>>, <<31>>, <<224>> >>

\* n encoded pixels, cycling through the samples from sample `start`
RECURSIVE PixelRun(_, _, _)
PixelRun(nbytes, n, start) ==
    IF n = 0 THEN <<>>
    ELSE SamplePixels(nbytes)[(start % 3) + 1] \o PixelRun(nbytes, n - 1, start + 1)

\* What the server's rectangle header can say (left and top are any u16)
MaxU16 == 65535

\* Rectangles inside the raster (the whole screen, a single pixel, a column,
\* the rows below the first), a rectangle reaching beyond it, and rectangles
\* whose left + width or top + height exceeds the u16 range
ServerRects(width, height) ==
    {Rect(0, 0, width, height),
     Rect(width - 1, height - 1, 1, 1),
     Rect(width - 1, 0, 1, height),
     Rect(0, 1, width, height - 1),
     Rect(width - 1, 0, width, 1),
     Rect(MaxU16, 0, 1, 1),
     Rect(0, MaxU16, 1, 1)}

\* vnc-rs reads width * height * (bits_per_pixel / 8) bytes for a rectangle
PixelRuns == {0, 1}

ServerBuffers(format, rect, runs) ==
    {PixelRun(format.bits_per_pixel \div 8, rect.width * rect.height, start) :
        start \in runs}

\* A buffer one byte short of that
ShortBuffers(format, rect) ==
    {SubSeq(b, 1, Len(b) - 1) : b \in ServerBuffers(format, rect, {0})}

ImageFormats ==
    {Rgb565, Rgb888, BigEndian(Rgb555), Mapped8,
     PixelFormat(32, 32, FALSE, 255, 255, 255, 16, 8, 0),
     PixelFormat(32, 24, FALSE, 1023, 255, 255, 16, 8, 0)}

InitImage ==
    /\ build \in Builds
    /\ PixelIdle
    /\ ModeIdle
    /\ PoolIdle
    /\ AuthIdle
    /\ \E f \in ImageFormats : img = Image_new(f, ScreenWidth, ScreenHeight)
    /\ img_call = NoCall
    /\ img_ncalls = 0

\* vnc_image.put_pixels(rect, pixels); a panic ends the thread and the Image
PutPixelsCall(rect, pixels) ==
    /\ img_ncalls < MaxCalls
    /\ img_call.tag # "Panic"
    /\ \E res \in {put_pixels(build, img, rect, pixels)} :
           /\ img' = [img EXCEPT !.raster = res.raster]
           /\ img_call' = [rect |-> rect, pixels |-> pixels,
                           before |-> img.raster, tag |-> res.tag]
    /\ img_ncalls' = img_ncalls + 1
    /\ UNCHANGED <<build, pixelVars, modeVars, poolVars, authVars>>

NextImage ==
    \E rect \in ServerRects(img.width, img.height) :
        \/ \E pixels \in ServerBuffers(img.format, rect, PixelRuns) :
              PutPixelsCall(rect, pixels)
        \/ \E pixels \in ShortBuffers(img.format, rect) :
              PutPixelsCall(rect, pixels)

SpecImage == InitImage /\ [][NextImage]_vars

(***************************************************************************)
(* vnc_poll: one event taken from vnc.poll_iter()                          *)
(***************************************************************************)
Event(type, rect, pixels, error) ==
    [type |-> type, rect |-> rect, pixels |-> pixels, error |-> error]

EndOfFrame        == Event("EndOfFrame", Rect(0, 0, 0, 0), <<>>, FALSE)
Disconnected(err) == Event("Disconnected", Rect(0, 0, 0, 0), <<>>, err)
PutPixels(r, px)  == Event("PutPixels", r, px, FALSE)
\* Resize, SetColourMap, CopyPixels, SetCursor, Clipboard, Bell
OtherEvent        == Event("Other", Rect(0, 0, 0, 0), <<>>, FALSE)

\* The events that make vnc_poll return Ok(())
EndsFrame(ev) ==
    ev.type = "EndOfFrame" \/ (ev.type = "Disconnected" /\ ~ev.error)

\* An end-of-frame arm that falls through to the next event
vnc_poll_event_eof_ignored(bld, image, ev) ==
    IF ev.type = "Disconnected" /\ ~ev.error
    THEN [next |-> "ReturnOk", raster |-> image.raster]
    ELSE IF ev.type = "PutPixels"
    THEN LET res == put_pixels(bld, image, ev.rect, ev.pixels)
         IN  [next |-> IF res.tag = "Ok" THEN "Continue"
                       ELSE IF res.tag = "Err" THEN "ReturnErr" ELSE "Panic",
              raster |-> res.raster]
    ELSE [next |-> "Continue", raster |-> image.raster]

\* A PutPixels arm that returns once the rectangle is written
vnc_poll_event_pixels_end_frame(bld, image, ev) ==
    IF EndsFrame(ev)
    THEN [next |-> "ReturnOk", raster |-> image.raster]
    ELSE IF ev.type = "PutPixels"
    THEN LET res == put_pixels(bld, image, ev.rect, ev.pixels)
         IN  [next |-> IF res.tag = "Ok" THEN "ReturnOk"
                       ELSE IF res.tag = "Err" THEN "ReturnErr" ELSE "Panic",
              raster |-> res.raster]
    ELSE [next |-> "Continue", raster |-> image.raster]

\* A last arm that gives up on an event it does not know
vnc_poll_event_other_aborts(bld, image, ev) ==
    IF EndsFrame(ev)
    THEN [next |-> "ReturnOk", raster |-> image.raster]
    ELSE IF ev.type = "PutPixels"
    THEN LET res == put_pixels(bld, image, ev.rect, ev.pixels)
         IN  [next |-> IF res.tag = "Ok" THEN "Continue"
                       ELSE IF res.tag = "Err" THEN "ReturnErr" ELSE "Panic",
              raster |-> res.raster]
    ELSE [next |-> "ReturnErr", raster |-> image.raster]

\* The match on one event: what the loop does next, and the raster after it
vnc_poll_event(bld, image, ev) ==
    IF ev.type = "Disconnected" /\ ~ev.error
    THEN [next |-> "ReturnOk", raster |-> image.raster]
    ELSE IF ev.type = "PutPixels"
    THEN LET res == put_pixels(bld, image, ev.rect, ev.pixels)
         IN  [next |-> IF res.tag = "Ok" THEN "Continue"
                       ELSE IF res.tag = "Err" THEN "ReturnErr" ELSE "Panic",
              raster |-> res.raster]
    ELSE IF ev.type = "EndOfFrame"
    THEN [next |-> "ReturnOk", raster |-> image.raster]
    ELSE [next |-> "Continue", raster |-> image.raster]   \* other => debug!(..)

(***************************************************************************)
(* The worker pool.  The dispatcher is the caller of capture(); it keeps   *)
(* at most `threads` sessions active and frees a slot when it receives a     *)
(* completion signal.                                                      *)
(***************************************************************************)
MaxThreads == 2
MaxEvents  == 2

\* target_to_filename, and Path::new("vnc").join(..)
target_to_filename(t) == t
relative_filepath(t) == <<"vnc", target_to_filename(t), "png">>

\* VncOutput { target, file }.as_report_message()
VncOutput(t) == [target |-> t, file |-> relative_filepath(t)]

Started(t) == session[t].state # "Queued"
Ended(t)   == session[t].exited \/ session[t].state = "Panicked"

\* The connection has reported an error: its event channel stays empty
ConnectionDead(t) ==
    \E i \in 1..Len(session[t].events) :
        session[t].events[i].type = "Disconnected" /\ session[t].events[i].error

\* The dispatcher starts the next queued target in a free slot
Spawn ==
    /\ queue # <<>>
    /\ num_workers < threads
    /\ num_workers' = num_workers + 1
    /\ queue' = Tail(queue)
    /\ session' = [session EXCEPT ![Head(queue)].state = "Connecting"]
    /\ UNCHANGED <<build, pixelVars, modeVars, imageVars, authVars, net, threads, target_kind,
                   status_chan, completions, files, report_chan, reporter_alive>>

\* The dispatcher receives one completion signal
RecvComplete ==
    /\ status_chan > 0
    /\ status_chan' = status_chan - 1
    /\ num_workers' = num_workers - 1
    /\ completions' = completions + 1
    /\ UNCHANGED <<build, pixelVars, modeVars, imageVars, authVars, net, threads, target_kind, queue,
                   session, files, report_chan, reporter_alive>>

\* The reporter's Receiver is dropped
ReporterGone ==
    /\ reporter_alive
    /\ reporter_alive' = FALSE
    /\ UNCHANGED <<build, pixelVars, modeVars, imageVars, authVars, net, threads, target_kind, queue,
                   num_workers, status_chan, completions, session, files,
                   report_chan>>

SessionStep(t, s) ==
    /\ session' = [session EXCEPT ![t] = s]
    /\ UNCHANGED <<build, pixelVars, modeVars, imageVars, authVars, net, threads, target_kind, queue,
                   num_workers, status_chan, completions, files, report_chan,
                   reporter_alive>>

Fail(s, cause) == [s EXCEPT !.state = "Failed", !.cause = cause]

\* A vnc_capture that connects without looking at the kind of the target
Connect_any_target(t, connected) ==
    /\ session[t].state = "Connecting"
    /\ IF ~connected
       THEN SessionStep(t, Fail(session[t], "Connect"))
       ELSE SessionStep(t, [session[t] EXCEPT !.state = "Negotiating"])

\* vnc_capture: the match on the target, then TcpStream::connect(addr)?
Connect(t, connected) ==
    /\ session[t].state = "Connecting"
    /\ IF target_kind[t] = "Url"
       THEN SessionStep(t, Fail(session[t], "InvalidTarget"))
       ELSE IF ~connected
       THEN SessionStep(t, Fail(session[t], "Connect"))
       ELSE SessionStep(t, [session[t] EXCEPT !.state = "Negotiating"])

\* vnc_capture: Client::from_tcp_stream(..)?, set_encodings(..)?,
\* request_update(..)?, Image::new(vnc.format(), width, height)
Negotiate(t, ok, format) ==
    /\ session[t].state = "Negotiating"
    /\ IF ~ok
       THEN SessionStep(t, Fail(session[t], "Protocol"))
       ELSE SessionStep(t, [session[t] EXCEPT
                !.state = "AwaitingFrame",
                !.image = Image_new(format, net.width, net.height)])

\* vnc_poll: one turn of `for event in vnc.poll_iter()`
Poll(t, ev) ==
    /\ session[t].state = "AwaitingFrame"
    /\ ~ConnectionDead(t)
    /\ EndsFrame(ev) \/ Len(session[t].events) < net.max_events
    /\ \E res \in {vnc_poll_event(build, session[t].image, ev)} :
         \E s1 \in {[session[t] EXCEPT !.events = Append(session[t].events, ev),
                                       !.image.raster = res.raster]} :
           SessionStep(t,
             IF res.next = "ReturnOk" THEN [s1 EXCEPT !.state = "Finalizing"]
             ELSE IF res.next = "ReturnErr" THEN Fail(s1, "Decode")
             ELSE IF res.next = "Panic" THEN [s1 EXCEPT !.state = "Panicked"]
             ELSE s1)

\* vnc_poll on a dead connection: poll_iter() is empty, the loop turns again
PollIdle(t) ==
    /\ session[t].state = "AwaitingFrame"
    /\ ConnectionDead(t)
    /\ UNCHANGED vars

\* extract() consumes the image
Consumed(s) == [s EXCEPT !.image = NoImage, !.events = <<>>]

\* vnc_capture: vnc_image.image.extract().save(&filepath)?, then
\* report_tx.send(vnc_message)?
Finalize(t, saved) ==
    /\ session[t].state = "Finalizing"
    /\ IF ~saved
       THEN /\ session' = [session EXCEPT ![t] = Fail(Consumed(session[t]), "Save")]
            /\ UNCHANGED <<files, report_chan>>
       ELSE /\ files' = [files EXCEPT ![t] = session[t].image.raster]
            /\ IF reporter_alive
               THEN /\ report_chan' = Append(report_chan, VncOutput(t))
                    /\ session' = [session EXCEPT
                           ![t] = [Consumed(session[t]) EXCEPT !.state = "Saved"]]
               ELSE /\ session' = [session EXCEPT
                           ![t] = Fail(Consumed(session[t]), "Report")]
                    /\ UNCHANGED report_chan
    /\ UNCHANGED <<build, pixelVars, modeVars, imageVars, authVars, net, threads, target_kind, queue,
                   num_workers, status_chan, completions, reporter_alive>>

\* capture() returning as soon as vnc_capture has failed
capture_sends_unless_failed(state) == IF state = "Failed" THEN 0 ELSE 1

\* capture() sending a second signal from its error branch
capture_sends_twice_on_failure(state) == IF state = "Failed" THEN 2 ELSE 1

\* capture: the ThreadStatus::Complete messages sent once vnc_capture has
\* returned, Ok or Err alike
capture_sends(state) == 1

\* capture: if let Err(e) = vnc_capture(..) { warn!(..) }
\*          tx.send(ThreadStatus::Complete).unwrap()
capture(t) ==
    /\ session[t].state \in {"Saved", "Failed"}
    /\ ~session[t].exited
    /\ status_chan' = status_chan + capture_sends(session[t].state)
    /\ session' = [session EXCEPT
           ![t].sent = @ + capture_sends(session[t].state),
           ![t].exited = TRUE,
           ![t].image = NoImage,
           ![t].events = <<>>]
    /\ UNCHANGED <<build, pixelVars, modeVars, imageVars, authVars, net, threads, target_kind, queue,
                   num_workers, completions, files, report_chan, reporter_alive>>

\* What the server of a session can send next
ServerEvents(t) ==
    net.events
    \cup UNION {{PutPixels(r, px) :
                    px \in ServerBuffers(session[t].image.format, r, net.runs)} :
                  r \in net.rects}

NextPool ==
    \/ Spawn
    \/ RecvComplete
    \/ ReporterGone
    \/ \E t \in Targets :
        \/ \E connected \in BOOLEAN : Connect(t, connected)
        \/ \E ok \in BOOLEAN, format \in net.formats : Negotiate(t, ok, format)
        \/ /\ session[t].state = "AwaitingFrame"
           /\ \E ev \in ServerEvents(t) : Poll(t, ev)
        \/ PollIdle(t)
        \/ \E saved \in BOOLEAN : Finalize(t, saved)
        \/ capture(t)

RECURSIVE Upto(_)
Upto(n) == IF n = 0 THEN <<>> ELSE Append(Upto(n - 1), n)

\* A run over NumTargets targets whose servers have a one-pixel screen
\* and send that pixel, then end the frame or break the connection
DispatchNet ==
    [formats |-> {Rgb565, PixelFormat(32, 32, FALSE, 255, 255, 255, 16, 8, 0)},
     width |-> 1, height |-> 1, rects |-> {Rect(0, 0, 1, 1)}, runs |-> {0},
     events |-> {EndOfFrame, Disconnected(TRUE)}, max_events |-> 1]

\* The target lists of a run: every target an Address, or the first a Url
TargetLists ==
    {[t \in Targets |-> IF t = u THEN "Url" ELSE "Address"] : u \in {0, 1}}

\* DispatchNet's one rectangle and two formats overflow nothing, so the two
\* builds behave alike in this run
Init ==
    /\ build = "release"
    /\ PixelIdle
    /\ ModeIdle
    /\ ImageIdle
    /\ AuthIdle
    /\ net = DispatchNet
    /\ threads \in 1..MaxThreads
    /\ target_kind \in TargetLists
    /\ queue = Upto(NumTargets)
    /\ num_workers = 0
    /\ status_chan = 0
    /\ completions = 0
    /\ session = [t \in Targets |-> NoSession]
    /\ files = [t \in Targets |-> NoFile]
    /\ report_chan = <<>>
    /\ reporter_alive = TRUE

Spec == Init /\ [][NextPool]_vars

\* A run over one target whose server has a ScreenWidth x ScreenHeight screen
SessionNet ==
    [formats |-> ImageFormats, width |-> ScreenWidth, height |-> ScreenHeight,
     rects |-> ServerRects(ScreenWidth, ScreenHeight), runs |-> PixelRuns,
     events |-> {EndOfFrame, Disconnected(FALSE), Disconnected(TRUE), OtherEvent},
     max_events |-> MaxEvents]

InitSession ==
    /\ build \in Builds
    /\ PixelIdle
    /\ ModeIdle
    /\ ImageIdle
    /\ AuthIdle
    /\ net = SessionNet
    /\ threads = 1
    /\ target_kind \in TargetLists
    /\ queue = <<1>>
    /\ num_workers = 0
    /\ status_chan = 0
    /\ completions = 0
    /\ session = [t \in Targets |-> NoSession]
    /\ files = [t \in Targets |-> NoFile]
    /\ report_chan = <<>>
    /\ reporter_alive = TRUE

SpecSession == InitSession /\ [][NextPool]_vars

\* The steps a session's thread takes by itself once started: the operating
\* system schedules the thread, and connect, the handshake, save and the
\* channel sends all return.  Poll is not among them: whether a further event
\* arrives is up to the server.
SessionRun(t) ==
    \/ \E connected \in BOOLEAN : Connect(t, connected)
    \/ \E ok \in BOOLEAN, format \in net.formats : Negotiate(t, ok, format)
    \/ \E saved \in BOOLEAN : Finalize(t, saved)
    \/ capture(t)

SpecSessionFair ==
    /\ InitSession
    /\ [][NextPool]_vars
    /\ WF_vars(Spawn)
    /\ WF_vars(RecvComplete)
    /\ \A t \in Targets : WF_vars(SessionRun(t))

(***************************************************************************)
(* C1.  Every invocation of capture() sends exactly one                    *)
(* ThreadStatus::Complete, whatever happens inside the session, and only   *)
(* after the session has reached Saved or Failed.                          *)
(***************************************************************************)
EveryCaptureSendsOneComplete ==
    \A t \in Targets :
        /\ session[t].sent <= 1
        /\ session[t].sent = 1 => session[t].state \in {"Saved", "Failed"}
        /\ Ended(t) => session[t].sent = 1

(***************************************************************************)
(* C2.  With several sessions running concurrently, once all sessions      *)
(* have ended the number of completion signals received equals the number  *)
(* of targets dispatched, and every session that saved its image has its   *)
(* outcome in the reporter channel.                                        *)
(***************************************************************************)
Dispatched == {t \in Targets : Started(t)}

\* The queue is drained, every thread is over, every signal sent was received
AllSessionsEnded ==
    /\ queue = <<>>
    /\ \A t \in Dispatched : Ended(t)
    /\ status_chan = 0

Reported(t) == \E i \in 1..Len(report_chan) : report_chan[i] = VncOutput(t)

SiblingsAllComplete ==
    AllSessionsEnded =>
        /\ completions = Cardinality(Dispatched)
        /\ \A t \in Dispatched : session[t].state = "Saved" => Reported(t)

(***************************************************************************)
(* C7.  At every moment the number of sessions started and not yet past    *)
(* their completion signal is at most the thread budget, and a slot is     *)
(* reused only after the completion signal of the session that held it has *)
(* been received.                                                          *)
(***************************************************************************)
Running == {t \in Targets : Started(t) /\ session[t].sent = 0}

AtMostThreadsSessions ==
    /\ Cardinality(Running) <= threads
    /\ Cardinality(Dispatched) <= threads + completions

\* The pool is full again after a slot was freed and reused for the last
\* target of a queue longer than the budget
SlotReusedPoolFull ==
    /\ threads > 1
    /\ NumTargets > threads
    /\ completions >= 1
    /\ Started(NumTargets)
    /\ Cardinality(Running) = threads

(***************************************************************************)
(* C8.  When sending the outcome message fails because the reporter is     *)
(* gone, the session still sends its completion signal: the failure is a   *)
(* warning inside capture() and the Complete send is neither stopped nor   *)
(* skipped.                                                                *)
(***************************************************************************)
FailedReportStillCompletes ==
    \A t \in Targets :
        session[t].cause = "Report" =>
            /\ session[t].state = "Failed"
            /\ session[t].sent = IF session[t].exited THEN 1 ELSE 0

ReportFailedAndCompleted ==
    \E t \in Targets :
        /\ session[t].cause = "Report"
        /\ ~reporter_alive
        /\ session[t].exited
        /\ session[t].sent = 1

(***************************************************************************)
(* C9.  Every session ends in exactly one of Saved or Failed: a Saved      *)
(* session has written its image file and sent exactly one outcome message *)
(* carrying the target and the path vnc/<target>.png; a Failed session has *)
(* sent no outcome message and has left no image file.                     *)
(***************************************************************************)
OutcomesOf(t) == {i \in 1..Len(report_chan) : report_chan[i].target = t}

SessionEndsSavedOrFailed ==
    \A t \in Targets :
        /\ Ended(t) => session[t].state \in {"Saved", "Failed"}
        /\ session[t].state = "Saved" =>
              /\ files[t] # NoFile
              /\ Cardinality(OutcomesOf(t)) = 1
              /\ Reported(t)
        /\ session[t].state = "Failed" =>
              /\ OutcomesOf(t) = {}
              /\ files[t] = NoFile

(***************************************************************************)
(* C10.  In vnc_poll an EndOfFrame event and a Disconnected event with no  *)
(* error both end the loop with success: the session goes on to Finalizing *)
(* and saves the raster exactly as assembled from the pixel-rectangle      *)
(* events received before that event; no event after it is applied.        *)
(***************************************************************************)
\* The raster assembled from the PutPixels events of a log, oldest first
RECURSIVE Assembled(_, _, _)
Assembled(bld, image, log) ==
    IF log = <<>> THEN image.raster
    ELSE IF Head(log).type = "PutPixels"
    THEN Assembled(bld,
             [image EXCEPT !.raster =
                 put_pixels(bld, image, Head(log).rect, Head(log).pixels).raster],
             Tail(log))
    ELSE Assembled(bld, image, Tail(log))

FrameEndFinalizes ==
    \A t \in Targets :
        LET log == session[t].events
            n   == Len(log)
        IN  /\ session[t].state = "AwaitingFrame" =>
                  \A i \in 1..n : ~EndsFrame(log[i])
            /\ session[t].state = "Finalizing" =>
                  /\ n >= 1
                  /\ EndsFrame(log[n])
                  /\ \A i \in 1..(n - 1) : ~EndsFrame(log[i])
                  /\ session[t].image.raster =
                        Assembled(build,
                            Image_new(session[t].image.format, net.width, net.height),
                            SubSeq(log, 1, n - 1))

\* What is saved is the raster the session holds in Finalizing
SavesFinalizingRaster ==
    \A t \in Targets :
        files'[t] # files[t] =>
            /\ session[t].state = "Finalizing"
            /\ files'[t] = session[t].image.raster

FrameEndSavesReceivedRaster ==
    /\ []FrameEndFinalizes
    /\ [][SavesFinalizingRaster]_vars

\* A frame ended by a clean disconnect after one rectangle was written
PartialFrameFinalizing ==
    \E t \in Targets :
        /\ session[t].state = "Finalizing"
        /\ Len(session[t].events) = 2
        /\ session[t].events[1].type = "PutPixels"
        /\ session[t].events[2] = Disconnected(FALSE)
        /\ session[t].image.raster #
              Image_new(session[t].image.format, net.width, net.height).raster

(***************************************************************************)
(* C3.  For every pixel format whose (bits-per-pixel, depth) pair is not   *)
(* one of (16,16), (16,15), (32,24), decoding a pixel returns a decode     *)
(* error: it never panics and never returns a triple.                      *)
(***************************************************************************)
SupportedPair(f) ==
    <<f.bits_per_pixel, f.depth>> \in {<<16, 16>>, <<16, 15>>, <<32, 24>>}

UnsupportedFormatIsDecodeError ==
    (px_result # NoResult /\ ~SupportedPair(px_format)) => px_result = Err

(***************************************************************************)
(* C4.  For each supported format and every sample of the right byte       *)
(* length, pixel_to_rgb returns per channel (value >> shift) & max, left-  *)
(* shifted by 8 - popcount(max) in the 16-bpp formats and unshifted in the *)
(* 32-bpp format, value being the sample read in the declared endianness;  *)
(* bytes FF FF in RGB565 little-endian give (248,252,248), 00 00 (0,0,0).  *)
(***************************************************************************)
\* The sample's value as two 16-bit halves, written out byte by byte
ValueOf(f, bytes) ==
    IF Len(bytes) = 2
    THEN [hi |-> 0,
          lo |-> IF f.big_endian THEN 256 * bytes[1] + bytes[2]
                 ELSE bytes[1] + 256 * bytes[2]]
    ELSE IF f.big_endian
         THEN [hi |-> 256 * bytes[1] + bytes[2], lo |-> 256 * bytes[3] + bytes[4]]
         ELSE [hi |-> bytes[3] + 256 * bytes[4], lo |-> bytes[1] + 256 * bytes[2]]

\* The width n of a channel whose maximum is 2^n - 1
ChannelBits(max) == CHOOSE n \in 0..8 : Pow2(n) = max + 1

\* (value div 2^shift) mod (max + 1) for value = hi * 2^16 + lo
FieldOf(value, shift, max) ==
    IF shift >= 16 THEN (value.hi \div Pow2(shift - 16)) % (max + 1)
    ELSE ((value.hi % (max + 1)) * Pow2(16 - shift) + value.lo \div Pow2(shift))
             % (max + 1)

ExpectedChannel(f, value, shift, max) ==
    IF f.bits_per_pixel = 16
    THEN FieldOf(value, shift, max) * Pow2(8 - ChannelBits(max))
    ELSE FieldOf(value, shift, max)

ExpectedRgb(f, bytes) ==
    LET v == ValueOf(f, bytes)
    IN  <<ExpectedChannel(f, v, f.red_shift, f.red_max),
          ExpectedChannel(f, v, f.green_shift, f.green_max),
          ExpectedChannel(f, v, f.blue_shift, f.blue_max)>>

SupportedDecodeIsChannelExtraction ==
    /\ (/\ px_result # NoResult
        /\ px_format \in WellFormedFormats
        /\ Len(px_bytes) * 8 = px_format.bits_per_pixel)
       => px_result = Ok(ExpectedRgb(px_format, px_bytes))
    /\ (px_result # NoResult /\ px_format = Rgb565 /\ px_bytes = <<255, 255>>)
       => px_result = Ok(<<248, 252, 248>>)
    /\ (px_result # NoResult /\ px_format = Rgb565 /\ px_bytes = <<0, 0>>)
       => px_result = Ok(<<0, 0, 0>>)

AllBitsSetDecoded ==
    /\ px_format = Rgb565
    /\ px_bytes = <<255, 255>>
    /\ px_result = Ok(<<248, 252, 248>>)

(***************************************************************************)
(* C5.  A successful put_pixels(rect, pixels) on a rectangle inside the    *)
(* raster writes exactly rect.width * rect.height pixels: raster pixel     *)
(* (left + i, top + j) becomes the decoding of the sample at index         *)
(* j * width + i of the buffer, every pixel outside the rectangle is       *)
(* unchanged.                                                              *)
(***************************************************************************)
InsideRaster(image, rect) ==
    /\ rect.left + rect.width <= image.width
    /\ rect.top + rect.height <= image.height

InRect(rect, c) ==
    /\ rect.left <= c[1] /\ c[1] < rect.left + rect.width
    /\ rect.top <= c[2] /\ c[2] < rect.top + rect.height

\* The encoded sample at index k of a buffer
SampleAt(format, pixels, k) ==
    LET n == format.bits_per_pixel \div 8
    IN  SubSeq(pixels, k * n + 1, k * n + n)

RectangleWrittenInPlace ==
    (img_call.tag = "Ok" /\ InsideRaster(img, img_call.rect)) =>
        \A c \in Coords(img.width, img.height) :
            IF InRect(img_call.rect, c)
            THEN LET i == c[1] - img_call.rect.left
                     j == c[2] - img_call.rect.top
                 IN  Ok(img.raster[c]) =
                       pixel_to_rgb(build, img.format,
                           SampleAt(img.format, img_call.pixels,
                                    j * img_call.rect.width + i))
            ELSE img.raster[c] = img_call.before[c]

\* A full-screen rectangle of three different samples has been written over
\* a raster that was not blank
FullRectangleWritten ==
    /\ img_call.tag = "Ok"
    /\ img_call.rect = Rect(0, 0, ScreenWidth, ScreenHeight)
    /\ img_call.pixels = PixelRun(2, ScreenWidth * ScreenHeight, 0)
    /\ img.format = Rgb565
    /\ img_call.before # Image_new(Rgb565, ScreenWidth, ScreenHeight).raster
    /\ img.raster[<<1, 0>>] # img.raster[<<0, 1>>]

(***************************************************************************)
(* C6.  Auto.selected(X), X.selected(Auto) and X.selected(X) are true for  *)
(* every mode X; X.selected(Y) is false for distinct non-Auto X, Y; the    *)
(* relation is symmetric.                                                  *)
(***************************************************************************)
ModeFilterTable ==
    \A i \in 1..Len(mode_calls) :
        LET c == mode_calls[i]
        IN  /\ (c.self = "Auto" \/ c.filter = "Auto" \/ c.self = c.filter)
                => c.result = TRUE
            /\ (c.self # "Auto" /\ c.filter # "Auto" /\ c.self # c.filter)
                => c.result = FALSE
            /\ \A j \in 1..Len(mode_calls) :
                  (mode_calls[j].self = c.filter /\ mode_calls[j].filter = c.self)
                  => mode_calls[j].result = c.result

ModeFilterBothWays ==
    /\ Len(mode_calls) = 2
    /\ mode_calls[1] = [self |-> "Vnc", filter |-> "Auto", result |-> TRUE]
    /\ mode_calls[2] = [self |-> "Auto", filter |-> "Vnc", result |-> TRUE]

(***************************************************************************)
(* C11.  A PutPixels event is never terminal for AwaitingFrame: after any  *)
(* PutPixels event the session is still in AwaitingFrame and keeps         *)
(* polling.                                                                *)
(***************************************************************************)
LastEvent(t) == session[t].events[Len(session[t].events)]

LastEventType(t) ==
    IF session[t].events = <<>> THEN "None" ELSE LastEvent(t).type

PutPixelsNeverTerminal ==
    \A t \in Targets :
        LastEventType(t) = "PutPixels" => session[t].state = "AwaitingFrame"

\* vnc_poll takes one more event in this step
TakesEvent(t) ==
    /\ session[t].state = "AwaitingFrame"
    /\ Len(session'[t].events) = Len(session[t].events) + 1

\* As amended: a PutPixels event never ends the frame (the session is never
\* in Finalizing or Saved right after it), and the session is still in
\* AwaitingFrame after it whenever its put_pixels call returned Ok; a call
\* that returns a decode error ends the session Failed
PutPixelsStep ==
    \A t \in Targets :
        (TakesEvent(t) /\ LastEventType(t)' = "PutPixels") =>
            LET ev  == LastEvent(t)'
                res == put_pixels(build, session[t].image, ev.rect, ev.pixels)
            IN  /\ session'[t].state \in {"AwaitingFrame", "Failed", "Panicked"}
                /\ res.tag = "Ok" => session'[t].state = "AwaitingFrame"
                /\ res.tag = "Err" => /\ session'[t].state = "Failed"
                                      /\ session'[t].cause = "Decode"

PutPixelsNeverEndsFrame == [][PutPixelsStep]_vars

\* Two rectangles taken one after the other, the session still polling
PollingAfterTwoRectangles ==
    \E t \in Targets :
        /\ session[t].state = "AwaitingFrame"
        /\ Len(session[t].events) = 2
        /\ session[t].events[1].type = "PutPixels"
        /\ session[t].events[2].type = "PutPixels"

(***************************************************************************)
(* C12.  Any event other than a pixel-rectangle update, end-of-frame or    *)
(* error-free disconnect leaves the session in AwaitingFrame with the      *)
(* raster unchanged: it does not abort the session, polling continues.     *)
(***************************************************************************)
OtherEventStep ==
    \A t \in Targets :
        (/\ TakesEvent(t)
         /\ LastEventType(t)' # "PutPixels"
         /\ ~EndsFrame(LastEvent(t)'))
        => /\ session'[t].state = "AwaitingFrame"
           /\ session'[t].cause = "None"
           /\ session'[t].image = session[t].image
           /\ session'[t].sent = 0
           /\ files' = files

OtherEventsIgnored == [][OtherEventStep]_vars

\* An unsupported event taken after a rectangle was written
OtherEventAfterRectangle ==
    \E t \in Targets :
        /\ session[t].state = "AwaitingFrame"
        /\ Len(session[t].events) = 2
        /\ session[t].events[1].type = "PutPixels"
        /\ session[t].events[2] = OtherEvent
        /\ session[t].image.raster #
              Image_new(session[t].image.format, net.width, net.height).raster

(***************************************************************************)
(* C13.  If the connection delivers an end-of-frame event or is            *)
(* disconnected, with or without an error, the session eventually leaves   *)
(* AwaitingFrame, reaches Saved or Failed and sends its completion signal: *)
(* it does not poll forever.                                               *)
(***************************************************************************)
\* The connection has delivered an end-of-frame event or a disconnect
FrameOver(t) ==
    \E i \in 1..Len(session[t].events) :
        session[t].events[i].type \in {"EndOfFrame", "Disconnected"}

Completed(t) ==
    /\ session[t].state \in {"Saved", "Failed"}
    /\ session[t].sent = 1

FrameEndOrDisconnectCompletes ==
    \A t \in Targets : FrameOver(t) ~> Completed(t)

(***************************************************************************)
(* C14.  Within one session, pixel-rectangle writes are applied in the     *)
(* order their events are received: after any sequence of PutPixels        *)
(* events each raster pixel holds the decoding of the sample from the      *)
(* last-received rectangle that covers it, or the blank value if none      *)
(* covers it.                                                              *)
(***************************************************************************)
\* The places in the log of the rectangles that cover a coordinate
Covering(t, c) ==
    {i \in 1..Len(session[t].events) :
        /\ session[t].events[i].type = "PutPixels"
        /\ c[1] >= session[t].events[i].rect.left
        /\ c[1] < session[t].events[i].rect.left + session[t].events[i].rect.width
        /\ c[2] >= session[t].events[i].rect.top
        /\ c[2] < session[t].events[i].rect.top + session[t].events[i].rect.height}

Latest(S) == CHOOSE i \in S : \A j \in S : j <= i

\* The encoded sample a rectangle event carries for a coordinate it covers
SampleFor(format, ev, c) ==
    LET n == format.bits_per_pixel \div 8
        k == (c[2] - ev.rect.top) * ev.rect.width + (c[1] - ev.rect.left)
    IN  [j \in 1..n |-> ev.pixels[k * n + j]]

LastRectangleWins ==
    \A t \in Targets :
        session[t].state \in {"AwaitingFrame", "Finalizing"} =>
            \A c \in DOMAIN session[t].image.raster :
                IF Covering(t, c) = {}
                THEN session[t].image.raster[c] = <<0, 0, 0>>
                ELSE Ok(session[t].image.raster[c]) =
                        pixel_to_rgb(build, session[t].image.format,
                            SampleFor(session[t].image.format,
                                session[t].events[Latest(Covering(t, c))], c))

\* The whole screen was written, then its last pixel was written again with
\* another sample
PixelOverwritten ==
    \E t \in Targets :
        LET c == <<ScreenWidth - 1, ScreenHeight - 1>>
            s == session[t]
        IN  /\ s.state = "AwaitingFrame"
            /\ s.image.format = Rgb565
            /\ Len(s.events) = 2
            /\ s.events[1].type = "PutPixels"
            /\ s.events[1].rect = Rect(0, 0, ScreenWidth, ScreenHeight)
            /\ s.events[2].type = "PutPixels"
            /\ s.events[2].rect = Rect(ScreenWidth - 1, ScreenHeight - 1, 1, 1)
            /\ Ok(s.image.raster[c]) = pixel_to_rgb(build, Rgb565, s.events[2].pixels)
            /\ Ok(s.image.raster[c]) #
                  pixel_to_rgb(build, Rgb565, SampleFor(Rgb565, s.events[1], c))

(***************************************************************************)
(* C15.  Decoding is all-or-nothing per invocation: a put_pixels call that *)
(* returns a decode error leaves the raster exactly as it was before the   *)
(* call, no pixel of the rectangle has been written.                       *)
(***************************************************************************)
DecodeErrorWritesNothing ==
    img_call.tag = "Err" => img.raster = img_call.before

(***************************************************************************)
(* C16.  A malformed byte length is a decode error, not a crash:           *)
(* pixel_to_rgb given a sample whose length is not bits-per-pixel / 8      *)
(* returns an error, and put_pixels given a buffer shorter than            *)
(* width * height * bytes-per-pixel returns an error.                      *)
(***************************************************************************)
BufferBytes(format, rect) ==
    rect.width * rect.height * (format.bits_per_pixel \div 8)

MalformedLengthIsDecodeError ==
    /\ (px_result # NoResult /\ Len(px_bytes) * 8 # px_format.bits_per_pixel)
           => px_result = Err
    /\ (/\ img_call.tag # "None"
        /\ Len(img_call.pixels) < BufferBytes(img.format, img_call.rect))
           => img_call.tag = "Err"

(***************************************************************************)
(* C17.  The authentication choice depends only on the set of offered      *)
(* methods: it is the no-authentication method whenever that method        *)
(* appears anywhere in the offered list, and no choice at all, with a      *)
(* warning, when it does not appear, including for an empty list.          *)
(***************************************************************************)
Offered == {auth_methods[i] : i \in 1..Len(auth_methods)}

AuthChoiceBySet ==
    auth_choice # NoAuthResult =>
        /\ "None" \in Offered =>
              (auth_choice.choice = "AuthChoice::None" /\ ~auth_choice.warned)
        /\ "None" \notin Offered =>
              (auth_choice.choice = "NoChoice" /\ auth_choice.warned)

\* The no-authentication method is offered last, after two other methods
NoAuthOfferedLast ==
    /\ auth_methods = <<"Password", "Unused", "None">>
    /\ auth_choice = SomeAuthChoiceNone

(***************************************************************************)
(* C18.  Pixel decoding respects the declared endianness: for every        *)
(* supported format and every sample, decoding the sample with the         *)
(* big-endian flag set gives the same (r,g,b) as decoding the              *)
(* byte-reversed sample with the flag cleared, all other fields equal.     *)
(***************************************************************************)
Reversed(s) == [i \in 1..Len(s) |-> s[Len(s) + 1 - i]]

OtherEndian(f) == [f EXCEPT !.big_endian = ~f.big_endian]

EndiannessRespected ==
    (px_result # NoResult /\ SupportedPair(px_format)) =>
        px_result = pixel_to_rgb(build, OtherEndian(px_format), Reversed(px_bytes))

\* A big-endian sample whose two bytes differ, decoded to a triple that the
\* little-endian reading of the same bytes does not give
BigEndianSampleDecoded ==
    /\ px_format = BigEndian(Rgb565)
    /\ px_bytes = <<31, 224>>
    /\ px_result.tag = "Ok"
    /\ px_result = pixel_to_rgb(build, Rgb565, <<224, 31>>)
    /\ px_result # pixel_to_rgb(build, Rgb565, <<31, 224>>)

(***************************************************************************)
(* C19.  Every pixel write made by put_pixels targets a coordinate inside  *)
(* the raster: for any rectangle a server can send, also one with          *)
(* left + width or top + height beyond the raster size or beyond the       *)
(* 16-bit range, put_pixels neither writes out of bounds nor overflows the *)
(* 16-bit coordinate arithmetic.                                           *)
(***************************************************************************)
\* A call whose every sample decodes: a well-formed format and a buffer of
\* the length the rectangle asks for
Decodable(call) ==
    /\ img.format \in WellFormedFormats
    /\ Len(call.pixels) = BufferBytes(img.format, call.rect)

\* Such a call never panics: neither ImageBuffer::put_pixel on a coordinate
\* outside the raster nor an overflowing sum stops it
WritesStayInsideRaster ==
    (img_call.tag # "None" /\ Decodable(img_call)) =>
        /\ img_call.tag = "Ok"
        /\ DOMAIN img.raster = Coords(img.width, img.height)

(***************************************************************************)
(* C20.  For a 16-bpp format with any server-declared channel maxima and   *)
(* shifts, pixel_to_rgb's arithmetic stays in range: the promotion shift   *)
(* 8 - popcount(channel_max) never goes negative, the shifted channel      *)
(* value fits the 16-bit intermediate, and whenever a triple is returned   *)
(* each channel is in 0..255 with its low 8 - popcount(channel_max) bits   *)
(* zero.                                                                   *)
(***************************************************************************)
\* The (shift, maximum) pairs of the red, green and blue channels
ChannelsOf(f) ==
    << <<f.red_shift, f.red_max>>, <<f.green_shift, f.green_max>>,
       <<f.blue_shift, f.blue_max>> >>

\* The sample as pixel_to_rgb reads it
PxOf(f, bytes) ==
    IF f.big_endian THEN from_be_bytes(bytes) ELSE from_le_bytes(bytes)

SixteenBppArithmeticInRange ==
    (/\ px_result # NoResult
     /\ px_format.bits_per_pixel = 16
     /\ SupportedPair(px_format)
     /\ Len(px_bytes) = 2)
    => /\ px_result.tag # "Panic"
       /\ \A i \in 1..3 :
             LET shift == ChannelsOf(px_format)[i][1]
                 max   == ChannelsOf(px_format)[i][2]
             IN  /\ 8 - count_ones(max) >= 0
                 /\ Channel(PxOf(px_format, px_bytes), shift, max, U16Bits)
                        * Pow2(8 - count_ones(max)) < Pow2(U16Bits)
                 /\ px_result.tag = "Ok" =>
                        /\ px_result.rgb[i] \in 0..255
                        /\ px_result.rgb[i] % Pow2(8 - count_ones(max)) = 0

(***************************************************************************)
(* C21.  A session whose target is a Url rather than an Address ends       *)
(* Failed before any connection is made: no connection is opened, no image *)
(* file is written, no outcome message is sent, and the completion signal  *)
(* is still sent exactly once.                                             *)
(***************************************************************************)
\* TcpStream::connect was called for the target: it failed (cause Connect) or
\* the session went on with the stream
ConnectionTried(t) ==
    \/ session[t].cause = "Connect"
    \/ session[t].state \notin {"Queued", "Connecting", "Failed"}
    \/ session[t].cause \in {"Protocol", "Decode", "Save", "Report"}

UrlTargetFailsUnconnected ==
    \A t \in Targets :
        target_kind[t] = "Url" =>
            /\ ~ConnectionTried(t)
            /\ session[t].state = "Failed" => session[t].cause = "InvalidTarget"
            /\ files[t] = NoFile
            /\ OutcomesOf(t) = {}
            /\ session[t].sent <= 1
            /\ session[t].sent = 1 => session[t].state = "Failed"
            /\ session[t].exited <=> session[t].sent = 1

\* The Url target's session is over and the dispatcher has its signal
UrlTargetCompleted ==
    \E t \in Targets :
        /\ target_kind[t] = "Url"
        /\ session[t].state = "Failed"
        /\ session[t].cause = "InvalidTarget"
        /\ session[t].exited
        /\ session[t].sent = 1
        /\ completions >= 1
        /\ status_chan = 0

=============================================================================
